---- MODULE Spec2Model ----
(***************************************************************************)
(* The Viewer component (components/Viewer.tsx): one mount of the          *)
(* component.  The effect calls init(), which suspends on three dynamic    *)
(* imports, builds the scene, starts the nested texture -> MTL -> OBJ      *)
(* load callbacks and the requestAnimationFrame loop; the effect's cleanup *)
(* is the teardown.  Every callback of the source is one action.           *)
(*                                                                         *)
(* Lengths are integers in 1/1000 of a scene unit.  The append-only debug  *)
(* log (addDebug) is never read by the code and is left out.               *)
(***************************************************************************)
EXTENDS Integers, Sequences, FiniteSets, TLC

VARIABLES
    net,            \* what each fetch will do: "ok", "fail" or "stall"
    initPc,         \* position of init: awaiting / returned / caught / done
    mountRef,       \* mountRef.current is the container (TRUE) or null (FALSE)
    unmounting,     \* React has begun to unmount the component
    cleanupRan,     \* the effect's cleanup function has run
    window,         \* <<window.innerWidth, window.innerHeight>>
    scene,          \* Undefined, or the Scene with the nodes added to it
    camera,         \* Undefined, or the PerspectiveCamera
    renderer,       \* Undefined, or the WebGLRenderer
    controls,       \* Undefined, or the OrbitControls
    frameId,        \* 0 (undefined) or the last requestAnimationFrame handle
    pendingFrames,  \* handles of the frame callbacks requested and not yet run
    resizeListener, \* handleResize is registered on window
    tex,            \* texture load: idle / pending / loaded / error
    mtl,            \* material load
    obj,            \* geometry load
    object,         \* NoObject, or the node OBJLoader produced
    modelMetadata,  \* React state: NoMetadata or the ModelMetadata record
    loading,        \* React state
    error,          \* React state: NoError or the message
    objLoader,      \* the OBJLoader of the run and the materials set on it
    startOrder,     \* what init has started, in the order it started it
    userMoved,      \* the user has moved the camera through the controls
    resizeHandled   \* handleResize has resized the camera and the renderer

vars == <<net, initPc, mountRef, unmounting, cleanupRan, window,
          scene, camera, renderer, controls, frameId, pendingFrames,
          resizeListener, tex, mtl, obj, object, modelMetadata, loading,
          error, userMoved, resizeHandled, objLoader, startOrder>>

loaders == <<tex, mtl, obj>>

(***************************************************************************)
(* Bounds of the model.                                                    *)
(***************************************************************************)
MaxMeshes == 2
NumMtl == 2
MaxFrames == 3

\* a variable not yet assigned, and the null of React state
Undefined == [undefined |-> TRUE]
NoObject == [null |-> TRUE]
NoMetadata == [null |-> TRUE]
NoError == "null"

OUTCOMES == {"ok", "fail", "stall"}
VIEWPORTS == {<<800, 600>>, <<1600, 900>>}

ErrObjLoad == "Failed to load 3D model. Please check if model files exist in the correct location."
ErrFallback == "Failed to load model with or without materials."
ErrNoTexture == "Failed to load 3D model without texture."
ErrMaterials == "Failed to load materials and texture."
ErrInit == "Failed to initialize 3D viewer"

Origin == <<0, 0, 0>>
DefaultFov == 75
DefaultPosition == <<0, 2000, 5000>>
UserPosition == <<3000, 3000, 3000>>
NearFar == <<100, 1000000>>

VAdd(a, b) == <<a[1] + b[1], a[2] + b[2], a[3] + b[3]>>
VSub(a, b) == <<a[1] - b[1], a[2] - b[2], a[3] - b[3]>>
Max2(a, b) == IF a >= b THEN a ELSE b
Max3(a, b, c) == Max2(a, Max2(b, c))
Abs(x) == IF x < 0 THEN -x ELSE x

(***************************************************************************)
(* The loaded node.  An .obj file is described by its sub-meshes (number   *)
(* of vertex positions, length of the index buffer or NoIndex, and the     *)
(* material of the library its usemtl names) and by the bounding box of    *)
(* its geometry.                                                           *)
(***************************************************************************)
\* geometry.getIndex() of a geometry without index buffer (null)
NoIndex == -1

\* geometry.getAttribute('position') of a geometry without positions (undefined)
NoPosition == -1

\* OBJLoader emits triangle soup: no index buffer, three positions a face
GEOMETRIES == { [position |-> 3, index |-> NoIndex],
                [position |-> 6, index |-> NoIndex],
                [position |-> 12, index |-> NoIndex] }

BOXES == { [min |-> <<-1000, -1000, -1000>>, max |-> <<1000, 1000, 1000>>],
           [min |-> <<0, 0, 0>>,             max |-> <<2000, 4000, 6000>>],
           [min |-> <<-2000, 0, 0>>,         max |-> <<2000, 0, 2000>>] }

MESHFILES == [geometry : GEOMETRIES, usemtl : 1..NumMtl]

OBJFILES == [meshes : UNION {[1..n -> MESHFILES] : n \in 0..MaxMeshes}, box : BOXES]

\* Mutant of Parse: setMaterials is forgotten, the library is never bound.
Parse_WithoutMaterials(file, withMaterials) ==
    [meshes   |-> [k \in DOMAIN file.meshes |->
                     [type     |-> "Mesh",
                      geometry |-> file.meshes[k].geometry,
                      material |-> [kind |-> "default", id |-> k]]],
     geometryBox |-> file.box,
     position |-> Origin]

\* OBJLoader.parse: with a material library every sub-mesh is bound to the
\* library's material of that name (one object per name, shared); without
\* one every sub-mesh gets a material of its own.
Parse(file, withMaterials) ==
    [meshes   |-> [k \in DOMAIN file.meshes |->
                     [type     |-> "Mesh",
                      geometry |-> file.meshes[k].geometry,
                      material |-> IF withMaterials
                                   THEN [kind |-> "mtl", id |-> file.meshes[k].usemtl]
                                   ELSE [kind |-> "default", id |-> k]]],
     geometryBox |-> file.box,
     position |-> Origin]

\* new THREE.Box3().setFromObject(object): the geometry's box in world space;
\* a node without children gives the empty box.
setFromObject(o) ==
    IF Len(o.meshes) = 0
    THEN [empty |-> TRUE, min |-> Origin, max |-> Origin]
    ELSE [empty |-> FALSE,
          min |-> VAdd(o.geometryBox.min, o.position),
          max |-> VAdd(o.geometryBox.max, o.position)]

\* Box3.getCenter / Box3.getSize: both give (0,0,0) for the empty box.
getCenter(box) ==
    IF box.empty THEN Origin
    ELSE <<(box.min[1] + box.max[1]) \div 2,
           (box.min[2] + box.max[2]) \div 2,
           (box.min[3] + box.max[3]) \div 2>>

\* Mutant of getSize: the size is read from the box's upper corner.
getSize_Max(box) == IF box.empty THEN Origin ELSE box.max

getSize(box) == IF box.empty THEN Origin ELSE VSub(box.max, box.min)

\* Mutant of Centered: the center is added to the position.
Centered_Added(o) == [o EXCEPT !.position = VAdd(@, getCenter(setFromObject(o)))]

\* object.position.sub(center)
Centered(o) == [o EXCEPT !.position = VSub(@, getCenter(setFromObject(o)))]

\* Mutant of ApplyTexture: the sub-meshes keep the materials they have.
ApplyTexture_Skipped(o) == o

\* object.traverse(child => child.material = new MeshPhongMaterial({map: texture}))
\* a new material object for every sub-mesh.
ApplyTexture(o) ==
    [o EXCEPT !.meshes = [k \in DOMAIN @ |->
        IF @[k].type = "Mesh"
        THEN [@[k] EXCEPT !.material = [kind |-> "texture", id |-> k]]
        ELSE @[k]]]

\* the Set of child.material over the sub-meshes, and its size
MaterialSet(o) ==
    {o.meshes[k].material : k \in {j \in DOMAIN o.meshes : o.meshes[j].type = "Mesh"}}
materialCount(o) == Cardinality(MaterialSet(o))

RECURSIVE SumOver(_, _, _)
SumOver(f(_), seq, k) == IF k = 0 THEN 0 ELSE f(seq[k]) + SumOver(f, seq, k - 1)

\* a quotient n / 3 of JavaScript numbers, kept exact: <<numerator, denominator>>
Thirds(n) == IF n % 3 = 0 THEN <<n \div 3, 1>> ELSE <<n, 3>>

\* Mutant of VerticesOf: the instanceof THREE.Mesh test is dropped.
VerticesOf_AnyChild(child) ==
    IF child.geometry.position # NoPosition THEN child.geometry.position ELSE 0

\* if (child instanceof THREE.Mesh) ... if (position) count += position.count
VerticesOf(child) ==
    IF child.type = "Mesh" /\ child.geometry.position # NoPosition
    THEN child.geometry.position
    ELSE 0

countVertices(o) == SumOver(VerticesOf, o.meshes, Len(o.meshes))

\* the numerator of what one child adds: index.count / 3 with an index
\* buffer, position.count / 3 without one, nothing for other children
FaceThirdsOf(child) ==
    IF child.type # "Mesh" THEN 0
    ELSE IF child.geometry.index # NoIndex THEN child.geometry.index
    ELSE IF child.geometry.position # NoPosition THEN child.geometry.position
    ELSE 0
countFaces(o) == Thirds(SumOver(FaceThirdsOf, o.meshes, Len(o.meshes)))

Metadata(o, size, materials) ==
    [vertices |-> countVertices(o),
     faces |-> countFaces(o),
     materials |-> materials,
     dimensions |-> [width |-> size[1], height |-> size[2], depth |-> size[3]]]

(***************************************************************************)
(* Camera auto-framing.  Math.sin(fov / 2) for the field of view in        *)
(* degrees, in 1/100000.                                                   *)
(***************************************************************************)
SinHalfFov(fov) ==
    CASE fov = 30 -> 25882
      [] fov = 45 -> 38268
      [] fov = 60 -> 50000
      [] fov = 75 -> 60876
      [] fov = 90 -> 70711
      [] fov = 120 -> 86603

\* Mutant of CameraZ: maxDim is multiplied by the sine.
CameraZ_Multiplied(maxDim, fov) ==
    Abs((maxDim * SinHalfFov(fov)) \div 100000) * 2

CameraZ(maxDim, fov) == Abs((maxDim * 100000) \div SinHalfFov(fov)) * 2

Framed(cam, size) ==
    LET maxDim == Max3(size[1], size[2], size[3])
    IN  [cam EXCEPT !.position = <<0, maxDim \div 2, CameraZ(maxDim, cam.fov)>>,
                    !.lookAt = Origin,
                    !.near = NearFar[1],
                    !.far = NearFar[2]]

(***************************************************************************)
(* State after construction: the component is mounted, the effect has      *)
(* called init(), which is suspended on its dynamic imports.               *)
(***************************************************************************)
Init ==
    /\ net \in [tex : OUTCOMES, mtl : OUTCOMES, obj : OUTCOMES]
    /\ initPc = "awaiting"
    /\ mountRef = TRUE
    /\ unmounting = FALSE
    /\ cleanupRan = FALSE
    /\ window \in VIEWPORTS
    /\ scene = Undefined
    /\ camera = Undefined
    /\ renderer = Undefined
    /\ controls = Undefined
    /\ frameId = 0
    /\ pendingFrames = {}
    /\ resizeListener = FALSE
    /\ tex = "idle"
    /\ mtl = "idle"
    /\ obj = "idle"
    /\ object = NoObject
    /\ modelMetadata = NoMetadata
    /\ loading = TRUE
    /\ error = NoError
    /\ userMoved = FALSE
    /\ resizeHandled = FALSE
    /\ objLoader = Undefined
    /\ startOrder = <<>>

(***************************************************************************)
(* init(), from the resumption after the imports to its return.  Nothing   *)
(* in it suspends, so each way through it is one step.  A call inside the  *)
(* try block may throw; the catch block then runs with whatever the lines  *)
(* before the throw have done.                                             *)
(***************************************************************************)
\* requestAnimationFrame returns a handle that is never 0; the model has
\* MaxFrames handles and reuses them in turn, so that the loop never ends.
RequestAnimationFrame == IF frameId < MaxFrames THEN frameId + 1 ELSE 1

DefaultScene == [children |-> {"grid", "axes", "ambient", "directional", "point"}]

\* scene.add(...)
SceneAdd(sc, nodes) == [sc EXCEPT !.children = @ \cup nodes]

NewControls == [target |-> Origin, enableDamping |-> TRUE]

NewCamera ==
    [fov |-> DefaultFov, aspect |-> window, near |-> NearFar[1], far |-> NearFar[2],
     position |-> DefaultPosition, lookAt |-> "default"]

NewRenderer == [size |-> window, attached |-> TRUE, disposed |-> FALSE]

\* catch (err) { setError("Failed to initialize 3D viewer"); setLoading(false) }
InitCatch ==
    /\ initPc' = "caught"
    /\ error' = ErrInit
    /\ loading' = FALSE
    /\ UNCHANGED modelMetadata

\* one of the await import(...) rejects
InitImportThrows ==
    /\ initPc = "awaiting"
    /\ InitCatch
    /\ UNCHANGED <<net, mountRef, unmounting, cleanupRan, window, scene, camera,
                   renderer, controls, frameId, pendingFrames, resizeListener,
                   tex, mtl, obj, object, userMoved, resizeHandled, objLoader,
                   startOrder>>

\* if (!mountRef.current) return;
InitNoContainer ==
    /\ initPc = "awaiting"
    /\ ~mountRef
    /\ initPc' = "returned"
    /\ UNCHANGED <<net, mountRef, unmounting, cleanupRan, window, scene, camera,
                   renderer, controls, frameId, pendingFrames, resizeListener,
                   tex, mtl, obj, object, modelMetadata, loading, error,
                   userMoved, resizeHandled, objLoader, startOrder>>

\* new THREE.WebGLRenderer(...) throws: scene and camera exist, no renderer
InitRendererThrows ==
    /\ initPc = "awaiting"
    /\ mountRef
    /\ scene' = DefaultScene
    /\ camera' = NewCamera
    /\ InitCatch
    /\ UNCHANGED <<net, mountRef, unmounting, cleanupRan, window,
                   renderer, controls, frameId, pendingFrames, resizeListener,
                   tex, mtl, obj, object, userMoved, resizeHandled, objLoader,
                   startOrder>>

\* new OrbitControls(...) throws: the renderer is already in the container
InitControlsThrows ==
    /\ initPc = "awaiting"
    /\ mountRef
    /\ scene' = DefaultScene
    /\ camera' = NewCamera
    /\ renderer' = NewRenderer
    /\ InitCatch
    /\ UNCHANGED <<net, mountRef, unmounting, cleanupRan, window,
                   controls, frameId, pendingFrames, resizeListener,
                   tex, mtl, obj, object, userMoved, resizeHandled, objLoader,
                   startOrder>>

\* Mutant of InitSetup: animate() is called before textureLoader.load(...).
InitSetup_LoopFirst ==
    /\ initPc = "awaiting"
    /\ mountRef
    /\ scene' = SceneAdd(DefaultScene, {"cube"})
    /\ camera' = [NewCamera EXCEPT !.lookAt = Origin]
    /\ renderer' = NewRenderer
    /\ controls' = NewControls
    /\ tex' = "pending"
    /\ startOrder' = <<"loop", "load">>
    /\ frameId' = RequestAnimationFrame
    /\ pendingFrames' = pendingFrames \cup {RequestAnimationFrame}
    /\ UNCHANGED <<net, mountRef, unmounting, cleanupRan, window,
                   mtl, obj, object, userMoved, resizeHandled, objLoader>>

\* lines 46-131 and the first statement of animate(): scene, camera, renderer,
\* controls (controls.update() turns the camera to the target), test cube,
\* textureLoader.load(...), frameId = requestAnimationFrame(animate)
InitSetup ==
    /\ initPc = "awaiting"
    /\ mountRef
    /\ scene' = SceneAdd(DefaultScene, {"cube"})
    /\ camera' = [NewCamera EXCEPT !.lookAt = Origin]
    /\ renderer' = NewRenderer
    /\ controls' = NewControls
    /\ tex' = "pending"
    /\ startOrder' = <<"load", "loop">>
    /\ frameId' = RequestAnimationFrame
    /\ pendingFrames' = pendingFrames \cup {RequestAnimationFrame}
    /\ UNCHANGED <<net, mountRef, unmounting, cleanupRan, window,
                   mtl, obj, object, userMoved, resizeHandled, objLoader>>

\* the first controls.update() / renderer.render(...) of animate() throws,
\* after the pipeline and the first frame have been started
InitAnimateThrows ==
    /\ InitSetup
    /\ InitCatch
    /\ UNCHANGED resizeListener

\* init runs to its end: window.addEventListener('resize', handleResize)
InitCompletes ==
    /\ InitSetup
    /\ initPc' = "done"
    /\ resizeListener' = TRUE
    /\ UNCHANGED <<modelMetadata, loading, error>>

(***************************************************************************)
(* The render loop.                                                        *)
(***************************************************************************)
\* Mutant of animate: the frame is drawn but no next frame is requested.
animate_Once(h) ==
    /\ h \in pendingFrames
    /\ frameId' = frameId
    /\ pendingFrames' = pendingFrames \ {h}
    /\ UNCHANGED <<net, initPc, mountRef, unmounting, cleanupRan, window, scene,
                   camera, renderer, controls, resizeListener, tex, mtl, obj,
                   object, modelMetadata, loading, error,
                   userMoved, resizeHandled, objLoader, startOrder>>

\* Mutant of animate: the frame that ran stays pending beside its successor.
animate_Twice(h) ==
    /\ h \in pendingFrames
    /\ frameId' = RequestAnimationFrame
    /\ pendingFrames' = pendingFrames \cup {RequestAnimationFrame}
    /\ UNCHANGED <<net, initPc, mountRef, unmounting, cleanupRan, window, scene,
                   camera, renderer, controls, resizeListener, tex, mtl, obj,
                   object, modelMetadata, loading, error,
                   userMoved, resizeHandled, objLoader, startOrder>>

\* animate: frameId = requestAnimationFrame(animate); update; render
animate(h) ==
    /\ h \in pendingFrames
    /\ frameId' = RequestAnimationFrame
    /\ pendingFrames' = (pendingFrames \ {h}) \cup {RequestAnimationFrame}
    /\ UNCHANGED <<net, initPc, mountRef, unmounting, cleanupRan, window, scene,
                   camera, renderer, controls, resizeListener, tex, mtl, obj,
                   object, modelMetadata, loading, error,
                   userMoved, resizeHandled, objLoader, startOrder>>

AnimateFrame == \E h \in pendingFrames : animate(h)

\* the user drags on the canvas: OrbitControls moves the camera
UserOrbit ==
    /\ controls # Undefined
    /\ ~unmounting
    /\ camera.position # UserPosition
    /\ camera' = [camera EXCEPT !.position = UserPosition]
    /\ userMoved' = TRUE
    /\ UNCHANGED <<net, initPc, mountRef, unmounting, cleanupRan, window, scene,
                   renderer, controls, frameId, pendingFrames, resizeListener,
                   tex, mtl, obj, object, modelMetadata, loading, error,
                   resizeHandled, objLoader, startOrder>>

(***************************************************************************)
(* Resize.                                                                 *)
(***************************************************************************)
\* camera.aspect = innerWidth / innerHeight; camera.updateProjectionMatrix()
SetAspect(cam, viewport) == [cam EXCEPT !.aspect = viewport]

\* Mutant of SetSize: the renderer keeps its size.
SetSize_Forgotten(rend, viewport) == rend

\* renderer.setSize(innerWidth, innerHeight)
SetSize(rend, viewport) == [rend EXCEPT !.size = viewport]

handleResize ==
    IF renderer = Undefined \/ camera = Undefined \/ ~mountRef
    THEN UNCHANGED <<camera, renderer, resizeHandled>>
    ELSE /\ camera' = SetAspect(camera, window')
         /\ renderer' = SetSize(renderer, window')
         /\ resizeHandled' = TRUE

\* the window is resized; the listener, when registered, is called
WindowResize ==
    /\ \E v \in VIEWPORTS \ {window} : window' = v
    /\ IF resizeListener THEN handleResize
       ELSE UNCHANGED <<camera, renderer, resizeHandled>>
    /\ UNCHANGED <<net, initPc, mountRef, unmounting, cleanupRan, scene,
                   controls, frameId, pendingFrames, resizeListener,
                   tex, mtl, obj, object, modelMetadata, loading, error,
                   userMoved, objLoader, startOrder>>

(***************************************************************************)
(* The load pipeline: the nested callbacks of textureLoader.load.  A fetch *)
(* that is pending completes with the callback its outcome selects; a      *)
(* stalled fetch never completes.                                          *)
(***************************************************************************)
\* texture onLoad: start the material load (texture path)
TextureOnLoad ==
    /\ tex = "pending" /\ net.tex = "ok"
    /\ tex' = "loaded"
    /\ mtl' = "pending"
    /\ UNCHANGED <<net, initPc, mountRef, unmounting, cleanupRan, window, scene,
                   camera, renderer, controls, frameId, pendingFrames,
                   resizeListener, obj, object, modelMetadata, loading, error,
                   userMoved, resizeHandled, objLoader, startOrder>>

\* texture onError: start the material load (path without texture)
TextureOnError ==
    /\ tex = "pending" /\ net.tex = "fail"
    /\ tex' = "error"
    /\ mtl' = "pending"
    /\ UNCHANGED <<net, initPc, mountRef, unmounting, cleanupRan, window, scene,
                   camera, renderer, controls, frameId, pendingFrames,
                   resizeListener, obj, object, modelMetadata, loading, error,
                   userMoved, resizeHandled, objLoader, startOrder>>

\* Mutant of MtlOnLoad: objLoader.setMaterials(materials) is left out.
MtlOnLoad_NoSetMaterials ==
    /\ tex = "loaded" /\ mtl = "pending" /\ net.mtl = "ok"
    /\ mtl' = "loaded"
    /\ objLoader' = [materials |-> "none"]
    /\ obj' = "pending"
    /\ UNCHANGED <<net, initPc, mountRef, unmounting, cleanupRan, window, scene,
                   camera, renderer, controls, frameId, pendingFrames,
                   resizeListener, tex, object, modelMetadata, loading, error,
                   userMoved, resizeHandled, startOrder>>

\* MTL onLoad, texture path: objLoader.setMaterials(materials); objLoader.load
MtlOnLoad ==
    /\ tex = "loaded" /\ mtl = "pending" /\ net.mtl = "ok"
    /\ mtl' = "loaded"
    /\ objLoader' = [materials |-> "library"]
    /\ obj' = "pending"
    /\ UNCHANGED <<net, initPc, mountRef, unmounting, cleanupRan, window, scene,
                   camera, renderer, controls, frameId, pendingFrames,
                   resizeListener, tex, object, modelMetadata, loading, error,
                   userMoved, resizeHandled, startOrder>>

\* MTL onError, texture path: load the OBJ without materials as fallback
MtlOnError ==
    /\ tex = "loaded" /\ mtl = "pending" /\ net.mtl = "fail"
    /\ mtl' = "error"
    /\ objLoader' = [materials |-> "none"]
    /\ obj' = "pending"
    /\ UNCHANGED <<net, initPc, mountRef, unmounting, cleanupRan, window, scene,
                   camera, renderer, controls, frameId, pendingFrames,
                   resizeListener, tex, object, modelMetadata, loading, error,
                   userMoved, resizeHandled, startOrder>>

\* MTL onLoad, path without texture
MtlOnLoadNoTexture ==
    /\ tex = "error" /\ mtl = "pending" /\ net.mtl = "ok"
    /\ mtl' = "loaded"
    /\ objLoader' = [materials |-> "library"]
    /\ obj' = "pending"
    /\ UNCHANGED <<net, initPc, mountRef, unmounting, cleanupRan, window, scene,
                   camera, renderer, controls, frameId, pendingFrames,
                   resizeListener, tex, object, modelMetadata, loading, error,
                   userMoved, resizeHandled, startOrder>>

\* MTL onError, path without texture: the pipeline ends here
MtlOnErrorNoTexture ==
    /\ tex = "error" /\ mtl = "pending" /\ net.mtl = "fail"
    /\ mtl' = "error"
    /\ error' = ErrMaterials
    /\ loading' = FALSE
    /\ UNCHANGED <<net, initPc, mountRef, unmounting, cleanupRan, window, scene,
                   camera, renderer, controls, frameId, pendingFrames,
                   resizeListener, tex, obj, object, modelMetadata,
                   userMoved, resizeHandled, objLoader, startOrder>>

\* OBJ onLoad, texture and materials loaded: center, texture every mesh,
\* add node, box helper and wireframe, metadata, frame the camera
ObjOnLoad ==
    /\ tex = "loaded" /\ mtl = "loaded" /\ obj = "pending" /\ net.obj = "ok"
    /\ \E file \in OBJFILES :
         LET parsed == Parse(file, objLoader.materials = "library")
             size   == getSize(setFromObject(parsed))
             node   == ApplyTexture(Centered(parsed))
         IN  /\ object' = node
             /\ scene' = SceneAdd(scene, {"model", "boxHelper", "wireframe"})
             /\ modelMetadata' = Metadata(node, size, materialCount(node))
             /\ camera' = Framed(camera, size)
    /\ obj' = "loaded"
    /\ loading' = FALSE
    /\ UNCHANGED <<net, initPc, mountRef, unmounting, cleanupRan, window,
                   renderer, controls, frameId, pendingFrames, resizeListener,
                   tex, mtl, error, userMoved, resizeHandled, objLoader,
                   startOrder>>

\* OBJ onError, texture and materials loaded
ObjOnError ==
    /\ tex = "loaded" /\ mtl = "loaded" /\ obj = "pending" /\ net.obj = "fail"
    /\ obj' = "error"
    /\ error' = ErrObjLoad
    /\ loading' = FALSE
    /\ UNCHANGED <<net, initPc, mountRef, unmounting, cleanupRan, window, scene,
                   camera, renderer, controls, frameId, pendingFrames,
                   resizeListener, tex, mtl, object, modelMetadata,
                   userMoved, resizeHandled, objLoader, startOrder>>

\* Mutant of ObjOnLoadFallback: the load stays pending and can complete again.
ObjOnLoadFallback_Again ==
    /\ tex = "loaded" /\ mtl = "error" /\ obj = "pending" /\ net.obj = "ok"
    /\ \E file \in OBJFILES :
         LET parsed == Parse(file, objLoader.materials = "library")
             size   == getSize(setFromObject(parsed))
             node   == ApplyTexture(Centered(parsed))
         IN  /\ object' = node
             /\ scene' = SceneAdd(scene, {"model"})
             /\ modelMetadata' = Metadata(node, size, 1)
    /\ obj' = "pending"
    /\ loading' = FALSE
    /\ UNCHANGED <<net, initPc, mountRef, unmounting, cleanupRan, window,
                   camera, renderer, controls, frameId, pendingFrames,
                   resizeListener, tex, mtl, error, userMoved, resizeHandled, objLoader,
                   startOrder>>

\* OBJ onLoad of the fallback (materials failed): center, texture every mesh,
\* add node, metadata with materials: 1
ObjOnLoadFallback ==
    /\ tex = "loaded" /\ mtl = "error" /\ obj = "pending" /\ net.obj = "ok"
    /\ \E file \in OBJFILES :
         LET parsed == Parse(file, objLoader.materials = "library")
             size   == getSize(setFromObject(parsed))
             node   == ApplyTexture(Centered(parsed))
         IN  /\ object' = node
             /\ scene' = SceneAdd(scene, {"model"})
             /\ modelMetadata' = Metadata(node, size, 1)
    /\ obj' = "loaded"
    /\ loading' = FALSE
    /\ UNCHANGED <<net, initPc, mountRef, unmounting, cleanupRan, window,
                   camera, renderer, controls, frameId, pendingFrames,
                   resizeListener, tex, mtl, error, userMoved, resizeHandled, objLoader,
                   startOrder>>

\* Mutant of ObjOnErrorFallback: setError is forgotten.
ObjOnErrorFallback_NoSetError ==
    /\ tex = "loaded" /\ mtl = "error" /\ obj = "pending" /\ net.obj = "fail"
    /\ obj' = "error"
    /\ loading' = FALSE
    /\ UNCHANGED <<net, initPc, mountRef, unmounting, cleanupRan, window, scene,
                   camera, renderer, controls, frameId, pendingFrames,
                   resizeListener, tex, mtl, object, modelMetadata, error,
                   userMoved, resizeHandled, objLoader, startOrder>>

\* OBJ onError of the fallback
ObjOnErrorFallback ==
    /\ tex = "loaded" /\ mtl = "error" /\ obj = "pending" /\ net.obj = "fail"
    /\ obj' = "error"
    /\ error' = ErrFallback
    /\ loading' = FALSE
    /\ UNCHANGED <<net, initPc, mountRef, unmounting, cleanupRan, window, scene,
                   camera, renderer, controls, frameId, pendingFrames,
                   resizeListener, tex, mtl, object, modelMetadata,
                   userMoved, resizeHandled, objLoader, startOrder>>

\* OBJ onLoad without texture: center, add node, metadata
ObjOnLoadNoTexture ==
    /\ tex = "error" /\ mtl = "loaded" /\ obj = "pending" /\ net.obj = "ok"
    /\ \E file \in OBJFILES :
         LET parsed == Parse(file, objLoader.materials = "library")
             size   == getSize(setFromObject(parsed))
             node   == Centered(parsed)
         IN  /\ object' = node
             /\ scene' = SceneAdd(scene, {"model"})
             /\ modelMetadata' = Metadata(node, size, materialCount(node))
    /\ obj' = "loaded"
    /\ loading' = FALSE
    /\ UNCHANGED <<net, initPc, mountRef, unmounting, cleanupRan, window,
                   camera, renderer, controls, frameId, pendingFrames,
                   resizeListener, tex, mtl, error, userMoved, resizeHandled, objLoader,
                   startOrder>>

\* OBJ onError without texture
ObjOnErrorNoTexture ==
    /\ tex = "error" /\ mtl = "loaded" /\ obj = "pending" /\ net.obj = "fail"
    /\ obj' = "error"
    /\ error' = ErrNoTexture
    /\ loading' = FALSE
    /\ UNCHANGED <<net, initPc, mountRef, unmounting, cleanupRan, window, scene,
                   camera, renderer, controls, frameId, pendingFrames,
                   resizeListener, tex, mtl, object, modelMetadata,
                   userMoved, resizeHandled, objLoader, startOrder>>

(***************************************************************************)
(* Unmount.  React detaches the ref of the container and runs the effect's *)
(* cleanup.  The cleanup of a passive effect runs after the commit that    *)
(* detached the ref (React 17 and later): DetachRef, then Cleanup with     *)
(* mountRef.current null.  Where the cleanup runs inside the commit it     *)
(* still reads the container: Cleanup from the mounted state.  Both orders *)
(* are kept.                                                               *)
(***************************************************************************)
DetachRef ==
    /\ ~unmounting
    /\ unmounting' = TRUE
    /\ mountRef' = FALSE
    /\ UNCHANGED <<net, initPc, cleanupRan, window, scene, camera, renderer,
                   controls, frameId, pendingFrames, resizeListener, tex, mtl,
                   obj, object, modelMetadata, loading, error,
                   userMoved, resizeHandled, objLoader, startOrder>>

\* Mutant of CancelFrame: the cleanup does not cancel the frame.
CancelFrame_Skipped == pendingFrames

\* if (frameId) cancelAnimationFrame(frameId)
CancelFrame == IF frameId # 0 THEN pendingFrames \ {frameId} ELSE pendingFrames

\* if (renderer && mountRef.current?.contains(renderer.domElement))
\*   { removeChild(renderer.domElement); renderer.dispose() }
ReleaseRenderer ==
    IF renderer # Undefined /\ mountRef /\ renderer.attached
    THEN [renderer EXCEPT !.attached = FALSE, !.disposed = TRUE]
    ELSE renderer

Cleanup ==
    /\ ~cleanupRan
    /\ resizeListener' = FALSE
    /\ pendingFrames' = CancelFrame
    /\ renderer' = ReleaseRenderer
    /\ cleanupRan' = TRUE
    /\ unmounting' = TRUE
    /\ mountRef' = FALSE
    /\ UNCHANGED <<net, initPc, window, scene, camera, controls, frameId, tex,
                   mtl, obj, object, modelMetadata, loading, error,
                   userMoved, resizeHandled, objLoader, startOrder>>

Next ==
    \/ InitImportThrows
    \/ InitNoContainer
    \/ InitRendererThrows
    \/ InitControlsThrows
    \/ InitAnimateThrows
    \/ InitCompletes
    \/ AnimateFrame
    \/ UserOrbit
    \/ WindowResize
    \/ TextureOnLoad
    \/ TextureOnError
    \/ MtlOnLoad
    \/ MtlOnError
    \/ MtlOnLoadNoTexture
    \/ MtlOnErrorNoTexture
    \/ ObjOnLoad
    \/ ObjOnError
    \/ ObjOnLoadFallback
    \/ ObjOnErrorFallback
    \/ ObjOnLoadNoTexture
    \/ ObjOnErrorNoTexture
    \/ DetachRef
    \/ Cleanup

Spec == Init /\ [][Next]_vars

(***************************************************************************)
(* The same machine with the scheduling the runtime guarantees: the        *)
(* imports settle, a requested frame is run, and a pending fetch that is   *)
(* not stalled completes.  The user, the window and the unmount are free.  *)
(***************************************************************************)
InitResumes ==
    \/ InitImportThrows
    \/ InitNoContainer
    \/ InitRendererThrows
    \/ InitControlsThrows
    \/ InitAnimateThrows
    \/ InitCompletes

FairSpec ==
    /\ Spec
    /\ WF_vars(InitResumes)
    /\ WF_vars(AnimateFrame)
    /\ WF_vars(TextureOnLoad) /\ WF_vars(TextureOnError)
    /\ WF_vars(MtlOnLoad) /\ WF_vars(MtlOnError)
    /\ WF_vars(MtlOnLoadNoTexture) /\ WF_vars(MtlOnErrorNoTexture)
    /\ WF_vars(ObjOnLoad) /\ WF_vars(ObjOnError)
    /\ WF_vars(ObjOnLoadFallback) /\ WF_vars(ObjOnErrorFallback)
    /\ WF_vars(ObjOnLoadNoTexture) /\ WF_vars(ObjOnErrorNoTexture)

(***************************************************************************)
(* LoadState as the host sees it.                                          *)
(***************************************************************************)
Loading == loading
Ready == modelMetadata # NoMetadata
Failed == error # NoError

\* the camera position the auto-framer computes from the reported dimensions
FramedPosition(meta, fov) ==
    LET maxDim == Max3(meta.dimensions.width, meta.dimensions.height,
                       meta.dimensions.depth)
    IN  <<0, maxDim \div 2, CameraZ(maxDim, fov)>>

(***************************************************************************)
(* C1: when the material load fails and the geometry file is loadable,     *)
(* the geometry load is still attempted and the terminal LoadState is      *)
(* Ready, not Failed, with materialCount = 1, whatever the texture load    *)
(* did.  Stated for runs in which init completed without exception.        *)
(***************************************************************************)
C1_MaterialFailureFallsBack ==
    (initPc = "done" /\ mtl = "error" /\ net.obj = "ok")
        => /\ obj # "idle"
           /\ ~loading => (Ready /\ ~Failed /\ modelMetadata.materials = 1)

(***************************************************************************)
(* C2: a load-stage completion callback that fires after the teardown is a *)
(* no-op: it changes neither the scene, nor the camera, nor the LoadState  *)
(* (loading, error, metadata).  Stated for mounts whose init completed     *)
(* without exception.                                                      *)
(***************************************************************************)
C2_CallbackAfterTeardownIsNoOp ==
    [][(initPc = "done" /\ cleanupRan /\ loaders' # loaders)
          => UNCHANGED <<scene, camera, modelMetadata, loading, error>>]_vars

(***************************************************************************)
(* C3: in every reachable state exactly one of Loading, Ready and Failed   *)
(* holds: metadata and an error message are never both present, loading is *)
(* never set together with either, and never cleared with neither.         *)
(***************************************************************************)
C3_ExactlyOneLoadState ==
    /\ ~(Ready /\ Failed)
    /\ Loading => (~Ready /\ ~Failed)
    /\ ~Loading => (Ready \/ Failed)

(***************************************************************************)
(* C4: LoadState is monotonic: once loading is cleared, neither the        *)
(* metadata, nor the error, nor the loading flag changes again.            *)
(***************************************************************************)
C4_LoadStateMonotonic ==
    [][~loading => UNCHANGED <<modelMetadata, loading, error>>]_vars

(***************************************************************************)
(* C5: after the teardown has run no frame callback is pending (so none    *)
(* runs again) and no resize listener is registered, at whatever point the *)
(* unmount occurred, also while init was suspended on its imports.         *)
(***************************************************************************)
C5_TeardownStopsLoopAndListener ==
    cleanupRan => (pendingFrames = {} /\ ~resizeListener)

\* the teardown ran while the render loop was running and the listener registered
C5_Witness ==
    cleanupRan /\ frameId > 1 /\ initPc = "done" /\ pendingFrames = {}

(***************************************************************************)
(* C6: every renderer a mount created is detached from the container and   *)
(* disposed by the teardown.  Stated for mounts whose init completed       *)
(* without exception.                                                      *)
(***************************************************************************)
C6_RendererReleased ==
    (initPc = "done" /\ cleanupRan /\ renderer # Undefined)
        => (~renderer.attached /\ renderer.disposed)

(***************************************************************************)
(* C7: when the texture fetch never completes and the material and         *)
(* geometry fetches complete whenever started, the material and geometry   *)
(* stages are still started and LoadState eventually leaves Loading        *)
(* (unless the component is unmounted first).                              *)
(***************************************************************************)
C7_TextureDoesNotBlock ==
    [](( /\ initPc = "done" /\ tex = "pending"
         /\ net.tex = "stall" /\ net.mtl # "stall" /\ net.obj # "stall" )
          => <>((mtl # "idle" /\ ~loading) \/ unmounting))

(***************************************************************************)
(* C8: when the texture load fails and the material and geometry loads     *)
(* succeed, LoadState is Ready (and not Failed when init completed), the   *)
(* model node is in the scene and every sub-mesh has the material of the   *)
(* library that the geometry stage bound to it.                            *)
(***************************************************************************)
C8_TextureFailureKeepsMaterials ==
    (tex = "error" /\ mtl = "loaded" /\ obj = "loaded")
        => /\ Ready /\ ~Loading
           /\ initPc = "done" => ~Failed
           /\ "model" \in scene.children
           /\ \A k \in DOMAIN object.meshes :
                 /\ object.meshes[k].material.kind = "mtl"
                 /\ object.meshes[k].material.id \in 1..NumMtl
           /\ modelMetadata.materials = materialCount(object)

\* two sub-meshes with two materials of the library, after a failed texture
C8_Witness ==
    /\ tex = "error" /\ obj = "loaded"
    /\ Len(object.meshes) = 2
    /\ object.meshes[1].material # object.meshes[2].material

(***************************************************************************)
(* C9: when the geometry load fails, after a material load or in the       *)
(* fallback, LoadState is Failed, no model node is in the scene, and the   *)
(* pipeline has left the camera where init (or the user) put it.           *)
(***************************************************************************)
C9_GeometryFailureFails ==
    obj = "error"
        => /\ Failed /\ ~Ready /\ ~Loading
           /\ error \in {ErrObjLoad, ErrFallback, ErrNoTexture}
           /\ object = NoObject
           /\ scene.children = DefaultScene.children \cup {"cube"}
           /\ camera.position = IF userMoved THEN UserPosition ELSE DefaultPosition

\* the geometry failed in the fallback after a failed material load
C9_Witness ==
    obj = "error" /\ mtl = "error" /\ ~userMoved

(***************************************************************************)
(* C10: whenever LoadState becomes Ready, on every success path, the       *)
(* camera has been put by the auto-framer at (0, maxDim/2, distance),      *)
(* looking at the origin.  Stated for mounts whose init completed without  *)
(* exception.                                                              *)
(***************************************************************************)
C10_ReadyFramesCamera ==
    [][(initPc = "done" /\ ~Ready /\ Ready')
          => /\ camera'.position = FramedPosition(modelMetadata', camera'.fov)
             /\ camera'.lookAt = Origin]_vars

(***************************************************************************)
(* Statistics: material count                                              *)
(***************************************************************************)
\* C11: after a successful load in which the texture was applied, the
\* reported material count is exactly 1, whatever the number of sub-meshes
\* of the node and of materials in the library.
C11_TexturedMaterialCountIsOne ==
    (/\ initPc = "done"
     /\ tex = "loaded"
     /\ obj = "loaded"
     /\ Len(object.meshes) > 0)
        => modelMetadata.materials = 1

\* C12: on every Ready path the reported material count equals the number
\* of distinct materials (by identity) bound to the node's sub-meshes once
\* the last material assignment of the pipeline has landed.
C12_MaterialCountIsDistinctMaterials ==
    (/\ initPc = "done"
     /\ Ready
     /\ Len(object.meshes) > 0)
        => modelMetadata.materials = Cardinality(MaterialSet(object))

(***************************************************************************)
(* Statistics of an arbitrary node.  countVertices, countFaces and the     *)
(* material Set accept any Object3D: children that are not meshes, meshes  *)
(* whose geometry has no position attribute, index buffers of any length.  *)
(* OBJLoader produces only some of these, so the extraction of lines       *)
(* 204-222 is applied here to every node of NODES.                         *)
(***************************************************************************)
STATGEOMETRIES ==
    GEOMETRIES \cup { [position |-> 4, index |-> 6],
                      [position |-> 4, index |-> 5],
                      [position |-> 5, index |-> NoIndex],
                      [position |-> NoPosition, index |-> NoIndex] }

CHILDREN == [type     : {"Mesh", "LineSegments"},
             geometry : STATGEOMETRIES,
             material : {[kind |-> "mtl", id |-> i] : i \in 1..NumMtl}]

NODES == [meshes      : UNION {[1..n -> CHILDREN] : n \in 0..MaxMeshes},
          geometryBox : BOXES,
          position    : {Origin}]

StatsInit ==
    /\ object \in NODES
    /\ modelMetadata = NoMetadata
    /\ net = [tex |-> "ok", mtl |-> "ok", obj |-> "ok"]
    /\ initPc = "awaiting"
    /\ mountRef = TRUE
    /\ unmounting = FALSE
    /\ cleanupRan = FALSE
    /\ window = <<800, 600>>
    /\ scene = Undefined
    /\ camera = Undefined
    /\ renderer = Undefined
    /\ controls = Undefined
    /\ frameId = 0
    /\ pendingFrames = {}
    /\ resizeListener = FALSE
    /\ tex = "idle"
    /\ mtl = "idle"
    /\ obj = "idle"
    /\ loading = TRUE
    /\ error = NoError
    /\ userMoved = FALSE
    /\ resizeHandled = FALSE
    /\ objLoader = Undefined
    /\ startOrder = <<>>

\* setModelMetadata({vertices: countVertices(object), faces:
\* countFaces(object), materials: materialCount.size, dimensions: size})
ExtractStatistics ==
    /\ modelMetadata = NoMetadata
    /\ modelMetadata' = Metadata(object, getSize(setFromObject(object)),
                                 materialCount(object))
    /\ UNCHANGED <<net, initPc, mountRef, unmounting, cleanupRan, window, scene,
                   camera, renderer, controls, frameId, pendingFrames,
                   resizeListener, tex, mtl, obj, object, loading, error,
                   userMoved, resizeHandled, objLoader, startOrder>>

StatsNext == ExtractStatistics

StatsSpec == StatsInit /\ [][StatsNext]_vars

\* C13: countFaces is the sum over the sub-meshes of index length / 3 with
\* an index buffer and floor(vertex count / 3) without one, so the reported
\* face count is a non-negative integer for every geometry, also when a
\* count is not a multiple of 3.
C13_FaceCountIsFlooredInteger ==
    Ready =>
        LET m == object.meshes
            floored[k \in 0..Len(m)] ==
                IF k = 0 THEN 0
                ELSE floored[k - 1] +
                     (IF m[k].type # "Mesh" THEN 0
                      ELSE IF m[k].geometry.index # NoIndex
                           THEN m[k].geometry.index \div 3
                      ELSE IF m[k].geometry.position # NoPosition
                           THEN m[k].geometry.position \div 3
                      ELSE 0)
        IN  /\ modelMetadata.faces[2] = 1
            /\ modelMetadata.faces[1] >= 0
            /\ modelMetadata.faces[1] = floored[Len(m)]

\* C14: countVertices returns exactly V1 + ... + VK for a node whose K
\* sub-meshes hold V1..VK vertex positions; children that are not meshes and
\* meshes without a position attribute contribute 0.
C14_VertexCountIsSumOverMeshes ==
    Ready =>
        LET m == object.meshes
            counted == {k \in DOMAIN m : /\ m[k].type = "Mesh"
                                         /\ m[k].geometry.position # NoPosition}
            total[k \in 0..Len(m)] ==
                IF k = 0 THEN 0
                ELSE IF k \in counted THEN total[k - 1] + m[k].geometry.position
                ELSE total[k - 1]
        IN  /\ modelMetadata.vertices = total[Len(m)]
            /\ \A k \in DOMAIN m :
                   modelMetadata.vertices =
                       countVertices([object EXCEPT !.meshes = SubSeq(m, 1, k - 1)])
                     + countVertices([object EXCEPT !.meshes = SubSeq(m, k, Len(m))])

\* a mesh of 5 positions beside a child that is not a mesh: 5 vertices
C14_Witness ==
    /\ Ready
    /\ Len(object.meshes) = 2
    /\ object.meshes[1].type = "Mesh"
    /\ object.meshes[1].geometry.position = 5
    /\ object.meshes[2].type = "LineSegments"
    /\ object.meshes[2].geometry.position = 3
    /\ modelMetadata.vertices = 5

(***************************************************************************)
(* Resize                                                                  *)
(***************************************************************************)
\* the viewer is Running: init has registered the listener and the
\* component is mounted
Running == resizeListener /\ mountRef

\* C15: a resize to a new viewport (w, h) while the viewer is Running sets
\* the camera aspect to w/h and the renderer size to (w, h), and leaves the
\* scene, the loaded node, the camera position and the load state as they
\* were; handling the same viewport a second time changes nothing more.
C15_ResizeUpdatesAspectAndSize ==
    [][(Running /\ window' # window) =>
          /\ camera'.aspect = window'
          /\ renderer'.size = window'
          /\ camera'.position = camera.position
          /\ camera'.fov = camera.fov
          /\ UNCHANGED <<scene, object, controls, modelMetadata, loading, error,
                         tex, mtl, obj>>
          /\ SetAspect(camera', window') = camera'
          /\ SetSize(renderer', window') = renderer']_vars

\* a resize was handled after the model became Ready
C15_Witness ==
    /\ Running
    /\ resizeHandled
    /\ Ready
    /\ camera.aspect = window
    /\ renderer.size = window

(***************************************************************************)
(* Termination of the load                                                 *)
(***************************************************************************)
\* C16: if the component is not unmounted and every fetch that was started
\* completes (with success or error), the load state eventually leaves
\* Loading for good and is exactly one of Ready and Failed; Loading lasts
\* forever only when a started fetch never completes.
C16_LoadTerminatesInOneState ==
    \/ <>unmounting
    \/ <>[](tex = "pending")
    \/ <>[](mtl = "pending")
    \/ <>[](obj = "pending")
    \/ <>[](/\ ~Loading
            /\ Ready \/ Failed
            /\ ~(Ready /\ Failed))

(***************************************************************************)
(* Failures                                                                *)
(***************************************************************************)
\* C17: an exception thrown during scene setup, before loading starts,
\* yields Failed with the initialization message and leaves no partial
\* scene: no load stage has been started, no frame callback is scheduled and
\* no renderer canvas is left attached to the container.
C17_SetupExceptionLeavesNothing ==
    (initPc = "caught" /\ tex = "idle" /\ ~unmounting) =>
        /\ ~Loading
        /\ error = ErrInit
        /\ ~Ready
        /\ mtl = "idle" /\ obj = "idle"
        /\ pendingFrames = {}
        /\ renderer # Undefined => ~renderer.attached

\* C18: every Failed state carries one of three messages: the model load
\* error (with or without texture), the failure to load the model with or
\* without materials, and the initialization error; no other message is
\* ever reported.
C18_FailureMessageIsOneOfThree ==
    (Failed /\ initPc \in {"done", "caught"} /\ (initPc = "caught" => tex = "idle"))
        => error \in {ErrObjLoad, ErrNoTexture, ErrFallback, ErrInit}

(***************************************************************************)
(* Centering and framing                                                   *)
(***************************************************************************)
\* C19: centering is idempotent: once the node has been translated by
\* -center, its bounding box has its center at the origin and the extents
\* it had before, so centering it again translates it by zero.
C19_CenteringIsIdempotent ==
    object # NoObject =>
        LET box == setFromObject(object)
        IN  /\ getCenter(box) = Origin
            /\ Ready =>
                 getSize(box) = <<modelMetadata.dimensions.width,
                                  modelMetadata.dimensions.height,
                                  modelMetadata.dimensions.depth>>
            /\ getSize(box) = VSub(object.geometryBox.max, object.geometryBox.min)
                 \/ box.empty
            /\ Centered(object) = object

\* a node whose geometry is off the origin has been centered
C19_Witness ==
    /\ object # NoObject
    /\ Len(object.meshes) > 0
    /\ object.position # Origin
    /\ getCenter(setFromObject(object)) = Origin
    /\ Ready

(***************************************************************************)
(* The camera framing of lines 225-236 applied to nodes of any size under  *)
(* any field of view of the sine table.  The viewer itself frames once,    *)
(* with the fov of 75 degrees it gave the camera.                          *)
(***************************************************************************)
FOVS == {30, 45, 60, 75, 90, 120}

EXTENTS == {0, 2000, 4000, 6000}

FRAMENODES ==
    {[meshes      |-> <<[type     |-> "Mesh",
                         geometry |-> [position |-> 3, index |-> NoIndex],
                         material |-> [kind |-> "default", id |-> 1]]>>,
      geometryBox |-> [min |-> Origin, max |-> <<x, y, z>>],
      position    |-> Origin] : x \in EXTENTS, y \in EXTENTS, z \in EXTENTS}

FramerInit ==
    /\ object = NoObject
    /\ window = <<800, 600>>
    /\ camera \in {[NewCamera EXCEPT !.fov = f] : f \in FOVS}
    /\ modelMetadata = NoMetadata
    /\ net = [tex |-> "ok", mtl |-> "ok", obj |-> "ok"]
    /\ initPc = "awaiting"
    /\ mountRef = TRUE
    /\ unmounting = FALSE
    /\ cleanupRan = FALSE
    /\ scene = Undefined
    /\ renderer = Undefined
    /\ controls = Undefined
    /\ frameId = 0
    /\ pendingFrames = {}
    /\ resizeListener = FALSE
    /\ tex = "idle"
    /\ mtl = "idle"
    /\ obj = "idle"
    /\ loading = TRUE
    /\ error = NoError
    /\ userMoved = FALSE
    /\ resizeHandled = FALSE
    /\ objLoader = Undefined
    /\ startOrder = <<>>

\* size = box.getSize(...); maxDim = Math.max(size.x, size.y, size.z);
\* fov = camera.fov * (Math.PI / 180); camera.position.set(0, maxDim / 2,
\* cameraZ); camera.lookAt(0, 0, 0)
AdjustCamera ==
    /\ \E n \in FRAMENODES, f \in FOVS :
          /\ object' = n
          /\ camera' = Framed([camera EXCEPT !.fov = f],
                              getSize(setFromObject(n)))
    /\ UNCHANGED <<net, initPc, mountRef, unmounting, cleanupRan, window, scene,
                   renderer, controls, frameId, pendingFrames, resizeListener,
                   tex, mtl, obj, modelMetadata, loading, error, userMoved,
                   resizeHandled, objLoader, startOrder>>

FramerNext == AdjustCamera

FramerSpec == FramerInit /\ [][FramerNext]_vars

\* C20: the camera distance of the auto-framer is 2 * maxDim / sin(fov / 2):
\* it increases with maxDim for a fixed field of view and decreases with
\* the field of view for a fixed maxDim.
C20_CameraDistanceMonotonic ==
    [][(object # NoObject /\ object' # NoObject) =>
          LET size1 == getSize(setFromObject(object))
              size2 == getSize(setFromObject(object'))
              dim1  == Max3(size1[1], size1[2], size1[3])
              dim2  == Max3(size2[1], size2[2], size2[3])
              z1    == camera.position[3]
              z2    == camera'.position[3]
              sin2  == SinHalfFov(camera'.fov)
          IN  /\ z2 * sin2 <= 2 * dim2 * 100000
              /\ 2 * dim2 * 100000 < (z2 + 2) * sin2
              /\ (camera'.fov = camera.fov /\ dim1 < dim2) => z1 < z2
              /\ (dim1 = dim2 /\ camera.fov < camera'.fov) => z1 >= z2
              /\ (dim1 = dim2 /\ dim1 > 0 /\ camera.fov < camera'.fov) => z1 > z2
       ]_vars

\* a node of non-zero size framed under the widest field of view
C20_Witness ==
    /\ object # NoObject
    /\ camera.fov = 120
    /\ camera.position[3] > 0
    /\ camera.position[2] = 3000

(***************************************************************************)
(* One bounding-box snapshot                                               *)
(***************************************************************************)
\* C21: on every Ready path the reported dimensions, the centering
\* translation and, where the camera is framed, the camera distance all come
\* from the one bounding box taken before the node is translated: the
\* dimensions are the extents of the untranslated geometry, the node is moved
\* by minus the center of that box, and the camera is placed from the
\* largest of those extents.
C21_OneBoxSnapshot ==
    (Ready /\ Len(object.meshes) > 0) =>
        LET lo     == object.geometryBox.min
            hi     == object.geometryBox.max
            dims   == modelMetadata.dimensions
            maxDim == Max3(hi[1] - lo[1], hi[2] - lo[2], hi[3] - lo[3])
        IN  /\ dims.width  = hi[1] - lo[1]
            /\ dims.height = hi[2] - lo[2]
            /\ dims.depth  = hi[3] - lo[3]
            /\ \A i \in 1..3 : 2 * object.position[i] = 0 - (lo[i] + hi[i])
            /\ (tex = "loaded" /\ mtl = "loaded" /\ ~userMoved) =>
                  camera.position = <<0, maxDim \div 2, CameraZ(maxDim, camera.fov)>>

\* a node whose geometry is off the origin is Ready with the camera framed
C21_Witness ==
    /\ initPc = "done"
    /\ Ready
    /\ tex = "loaded" /\ mtl = "loaded" /\ ~userMoved
    /\ Len(object.meshes) > 0
    /\ object.geometryBox.min = Origin
    /\ object.position = <<-1000, -2000, -3000>>
    /\ modelMetadata.dimensions.depth = 6000

(***************************************************************************)
(* Ordering of the stages                                                  *)
(***************************************************************************)
\* C22: within one run the geometry load is started only after the material
\* stage has ended, with success or failure, and when it ended with success
\* the geometry load is bound to the materials that stage produced.
C22_GeometryAfterMaterials ==
    /\ mtl \in {"idle", "pending"} => obj = "idle"
    /\ obj # "idle" =>
          /\ objLoader # Undefined
          /\ mtl = "loaded" => objLoader.materials = "library"
    /\ (obj = "loaded" /\ mtl = "loaded" /\ tex = "error") =>
          \A k \in DOMAIN object.meshes :
              /\ object.meshes[k].material.kind = "mtl"
              /\ object.meshes[k].material.id \in 1..NumMtl

\* the geometry load is in flight on a loader that holds the library
C22_Witness ==
    /\ obj = "pending"
    /\ mtl = "loaded"
    /\ tex = "loaded"
    /\ objLoader = [materials |-> "library"]

\* C23: the completion of the texture load is unordered relative to the
\* completion of the material and geometry loads: the geometry load can
\* complete while the texture load is still in flight, so with a texture
\* fetch slower than all the others (one that never answers) the geometry
\* load still completes, unless the component is unmounted first.
C23_TextureUnorderedWithGeometry ==
    []((/\ initPc = "done"
        /\ tex = "pending"
        /\ net.tex = "stall" /\ net.mtl = "ok" /\ net.obj = "ok")
          => <>((obj = "loaded" /\ tex = "pending") \/ unmounting))

\* the order that is reachable: the texture load has completed and the
\* geometry load is still in flight
C23_Witness ==
    /\ tex = "loaded"
    /\ obj = "pending"

C25_LoopRunsUntilTeardown ==
    /\ [](( startOrder # <<>> /\ ~cleanupRan ) => pendingFrames # {})
    /\ [][( ~cleanupRan /\ ~cleanupRan' /\ pendingFrames # {} )
             => pendingFrames' # {}]_vars

\* the geometry load has failed, the teardown has not run, and the frame
\* requested last is pending
C25_Witness ==
    /\ Failed
    /\ error = ErrObjLoad
    /\ ~Loading
    /\ ~cleanupRan
    /\ pendingFrames = {frameId}
    /\ frameId > 1

(***************************************************************************)
(* Independence of timing                                                  *)
(***************************************************************************)
\* C26: for fixed outcomes of the texture, material and geometry fetches the
\* terminal load state, the reported metadata and the material bound to each
\* sub-mesh are the same however the completions are ordered and timed
\* against each other, the frames, the user and the window: once the
\* pipeline has ended they are a function of the three outcomes and of the
\* loaded file alone.
C26_OutcomeIndependentOfTiming ==
    (/\ initPc = "done"
     /\ \/ obj \in {"loaded", "error"}
        \/ tex = "error" /\ mtl = "error")
      =>
        LET noMaterialsNoTexture == net.tex = "fail" /\ net.mtl = "fail"
            ready == net.obj = "ok" /\ ~noMaterialsNoTexture
        IN  /\ ~Loading
            /\ Ready <=> ready
            /\ Failed <=> ~ready
            /\ error = IF noMaterialsNoTexture THEN ErrMaterials
                       ELSE IF net.obj = "ok" THEN NoError
                       ELSE IF net.tex = "fail" THEN ErrNoTexture
                       ELSE IF net.mtl = "fail" THEN ErrFallback
                       ELSE ErrObjLoad
            /\ ready =>
                 /\ \A k \in DOMAIN object.meshes :
                        object.meshes[k].material =
                            IF net.tex = "ok"
                            THEN [kind |-> "texture", id |-> k]
                            ELSE [kind |-> "mtl",
                                  id |-> object.meshes[k].material.id]
                 /\ modelMetadata =
                        Metadata(object, getSize(setFromObject(object)),
                                 IF net.tex = "ok" /\ net.mtl = "fail" THEN 1
                                 ELSE Cardinality({object.meshes[k].material :
                                                     k \in DOMAIN object.meshes}))

\* a run that ended Ready with frames, a user drag and a resize in between
C26_Witness ==
    /\ initPc = "done"
    /\ obj = "loaded"
    /\ net = [tex |-> "ok", mtl |-> "ok", obj |-> "ok"]
    /\ Ready
    /\ userMoved
    /\ resizeHandled
    /\ Len(object.meshes) = 2

(***************************************************************************)
(* One geometry load, one model node                                       *)
(***************************************************************************)
\* C27: in one run the geometry load is attempted at most once and at most
\* one model node is ever added to the scene: the geometry stage goes from
\* idle to pending and from pending to loaded or error and never back, and
\* a node is set only when there was none and no model was in the scene.
C27_OneGeometryLoadOneNode ==
    /\ []((scene # Undefined /\ "model" \in scene.children)
             => (obj = "loaded" /\ object # NoObject))
    /\ [][obj' # obj =>
             \/ obj = "idle" /\ obj' = "pending"
             \/ obj = "pending" /\ obj' \in {"loaded", "error"}]_vars
    /\ [][object' # object =>
             /\ object = NoObject
             /\ "model" \notin scene.children
             /\ "model" \in scene'.children]_vars

\* the fallback branch has added the model node
C27_Witness ==
    /\ tex = "loaded"
    /\ mtl = "error"
    /\ obj = "loaded"
    /\ object # NoObject
    /\ "model" \in scene.children

\* C28: at most one frame callback of a mount is pending at any time, and it
\* is the one whose handle is stored in frameId: the loop is entered once and
\* every frame requests exactly one successor, so cancelling the stored
\* handle at the teardown leaves no frame pending.
C28_SingleFramePending ==
    /\ [](/\ Cardinality(pendingFrames) <= 1
          /\ pendingFrames \subseteq {frameId}
          /\ frameId = 0 => pendingFrames = {})
    /\ [][(pendingFrames # {} /\ frameId' # frameId)
             => (pendingFrames' = {frameId'} /\ frameId \notin pendingFrames')]_vars
    /\ [][(cleanupRan' /\ ~cleanupRan) => pendingFrames' = {}]_vars

\* the teardown found the loop running, with the stored handle pending after
\* several frames, and cancelled it
C28_Witness ==
    /\ cleanupRan
    /\ frameId > 1
    /\ startOrder # <<>>
    /\ pendingFrames = {}

====
